---- MODULE Spec2Model ----
(***************************************************************************)
(* Rotation selection and daily schedule assembly of the Donna assistant   *)
(* (backend/donna/tools/schedule.py, projects.py, calendar_sync.py).       *)
(*                                                                         *)
(* The project store is the "projects" table, the weekly template is the   *)
(* "weekly_template" row of the "settings" table.  Every tool call is one  *)
(* action; its outcome is recorded in the variable call.                   *)
(***************************************************************************)
EXTENDS Integers, Sequences, FiniteSets, TLC

VARIABLES
    projects,   \* rows of the projects table, in the table's physical order
    template,   \* value of the settings row "weekly_template"
    now,        \* wall clock (datetime.now()), a day counter
    call,       \* the last tool call: its name, arguments and outcome
    pending,    \* a generate_daily_schedule call between its two reads
    scheduler,  \* the service's DonnaScheduler: entry point, jobs, runs
    graph,      \* the agent graph's run: current node and message list
    webhook,    \* the last POST /webhooks/calendly and its response
    telegram,   \* the last Telegram update handled and the messages sent
    last_responses, \* telegram_bot.last_responses: user id -> response
    calendar,   \* the events of the Google calendar "primary"
    editors     \* template update calls between their read and write

\* the state of the service around the two tables
service == <<graph, webhook, telegram, last_responses, calendar, editors>>

vars == <<projects, template, now, call, pending, scheduler, service>>

(***************************************************************************)
(* Bounds of the model.                                                    *)
(***************************************************************************)
MaxProjects == 3     \* rows in the projects table
MaxTime == 2         \* distinct last_worked instants / clock ticks
MaxPriority == 2     \* priority values 1..MaxPriority
MaxSlots == 3        \* num_slots ranges over 0..MaxSlots
MaxExclude == 1      \* size of the exclude_daily list
MaxDate == 1         \* date_str ranges over the days 0..MaxDate

(***************************************************************************)
(* Project rows.                                                           *)
(*   path         ""  = NULL / empty (falsy), otherwise a locator          *)
(*   prd_status_path  the PRD status file below path, Absent = NULL        *)
(*   last_worked  the stored value as the store returns it:                *)
(*       fmt "none"    NULL (never worked)                                 *)
(*       fmt "bad"     a string datetime.fromisoformat rejects             *)
(*       fmt "naive"   ISO timestamp without UTC offset                    *)
(*       fmt "offset"  ISO timestamp with a UTC offset ("...+00:00"), the  *)
(*                     form a TIMESTAMPTZ column is returned in            *)
(***************************************************************************)
ProjectIds == <<"sigmavue", "alpha", "beta", "gamma", "delta">>

Absent == "<absent>"

\* the project folders that hold a PRD status file
PrdStatusPathOf(id) ==
    IF id \in {"sigmavue", "alpha"} THEN ".prd-status.json" ELSE Absent

IdSet == {ProjectIds[i] : i \in 1..MaxProjects}

NeverWorked == [fmt |-> "none", t |-> 0]

LastWorkedValues ==
    {NeverWorked, [fmt |-> "bad", t |-> 0]}
        \cup [fmt : {"naive", "offset"}, t : 1..MaxTime]

\* rows the rotation filter accepts (a path, not daily): every last_worked
\* value and every priority
RotationRowsOf(id) ==
    {[id |-> id, name |-> id, path |-> "/p", daily |-> FALSE,
      prd_status_path |-> PrdStatusPathOf(id),
      priority |-> pr, last_worked |-> lw] :
        pr \in 1..MaxPriority, lw \in LastWorkedValues}

\* rows the filter rejects (daily, or no path); the filter drops them before
\* their last_worked is read, so these take two last_worked values only
OtherRowsOf(id) ==
    {[id |-> id, name |-> id, path |-> f[1], daily |-> f[2],
      prd_status_path |-> PrdStatusPathOf(id),
      priority |-> pr, last_worked |-> lw] :
        f \in {<<"/p", TRUE>>, <<"", FALSE>>}, pr \in 1..MaxPriority,
        lw \in {NeverWorked, [fmt |-> "offset", t |-> 1]}}

RowsOf(id) == RotationRowsOf(id) \cup OtherRowsOf(id)

\* all tables of exactly n rows, the i-th row carrying the i-th id
RECURSIVE TablesOfLen(_)
TablesOfLen(n) ==
    IF n = 0 THEN {<<>>}
    ELSE {Append(t, r) : t \in TablesOfLen(n - 1), r \in RowsOf(ProjectIds[n])}

Tables == UNION {TablesOfLen(n) : n \in 0..MaxProjects}

(***************************************************************************)
(* Sequence helpers.                                                       *)
(***************************************************************************)
Front(s) == SubSeq(s, 1, Len(s) - 1)

\* Take with the slice dropped: the whole sorted list is returned
Take_NoSlice(s, n) == s

\* Python slice s[:n] for n >= 0
Take(s, n) == SubSeq(s, 1, IF n < Len(s) THEN n ELSE Len(s))

Range(s) == {s[i] : i \in 1..Len(s)}

\* index of the row with this id in a list, 0 when absent
IndexOf(s, id) ==
    IF \E i \in 1..Len(s) : s[i].id = id
    THEN CHOOSE i \in 1..Len(s) : s[i].id = id
    ELSE 0

(***************************************************************************)
(* load_projects_from_supabase: select * from projects order by priority.  *)
(* Rows of equal priority come back in the table's order.                  *)
(***************************************************************************)
RECURSIVE InsertByPriority(_, _)
InsertByPriority(r, s) ==
    IF s = <<>> THEN <<r>>
    ELSE IF r.priority < s[Len(s)].priority
         THEN Append(InsertByPriority(r, Front(s)), s[Len(s)])
         ELSE Append(s, r)

RECURSIVE OrderByPriority(_)
OrderByPriority(t) ==
    IF t = <<>> THEN <<>>
    ELSE InsertByPriority(t[Len(t)], OrderByPriority(Front(t)))

load_projects_from_supabase(table) == OrderByPriority(table)

(***************************************************************************)
(* select_rotation_projects.                                               *)
(***************************************************************************)
DatetimeMin == 0

\* datetime.fromisoformat(last_worked.replace("Z", "")): a naive datetime for
\* a string without offset, an aware one for a string with offset, ValueError
\* for anything else.
FromIsoFormat(lw) ==
    CASE lw.fmt = "naive"  -> [ok |-> TRUE, aware |-> FALSE, t |-> lw.t]
      [] lw.fmt = "offset" -> [ok |-> TRUE, aware |-> TRUE, t |-> lw.t]
      [] OTHER             -> [ok |-> FALSE, aware |-> FALSE, t |-> 0]

\* sort_key(p): (parsed last_worked, priority); (datetime.min, priority) when
\* last_worked is falsy or does not parse
sort_key(p) ==
    LET lw == p.last_worked
        dt == FromIsoFormat(lw)
    IN  IF lw.fmt # "none" /\ dt.ok
        THEN [aware |-> dt.aware, t |-> dt.t, priority |-> p.priority]
        ELSE [aware |-> FALSE, t |-> DatetimeMin, priority |-> p.priority]

\* datetime == datetime: an aware and a naive datetime are never equal
DatetimeEq(a, b) == a.aware = b.aware /\ a.t = b.t

\* k1 < k2 on the key tuples raises TypeError when the first differing
\* components are an aware and a naive datetime
KeyCompareRaises(k1, k2) == ~DatetimeEq(k1, k2) /\ k1.aware # k2.aware

\* KeyLess with the tie-break reversed (higher priority value first)
KeyLess_TieReversed(k1, k2) ==
    IF DatetimeEq(k1, k2) THEN k1.priority > k2.priority ELSE k1.t < k2.t

KeyLess(k1, k2) ==
    IF DatetimeEq(k1, k2) THEN k1.priority < k2.priority ELSE k1.t < k2.t

Returned(s) == [raised |-> FALSE, list |-> s]
Raised == [raised |-> TRUE, list |-> <<>>]

\* InsertByKey placing a row ahead of the rows with an equal key
RECURSIVE InsertByKey_AheadOfEqual(_, _)
InsertByKey_AheadOfEqual(p, s) ==
    IF s = <<>> THEN Returned(<<p>>)
    ELSE LET q == s[Len(s)] IN
         IF KeyCompareRaises(sort_key(p), sort_key(q)) THEN Raised
         ELSE IF ~KeyLess(sort_key(q), sort_key(p))
              THEN LET r == InsertByKey_AheadOfEqual(p, Front(s)) IN
                   IF r.raised THEN Raised ELSE Returned(Append(r.list, q))
              ELSE Returned(Append(s, p))

\* list.sort(key=sort_key): a stable sort; an exception raised by a
\* comparison propagates out of sort
RECURSIVE InsertByKey(_, _)
InsertByKey(p, s) ==
    IF s = <<>> THEN Returned(<<p>>)
    ELSE LET q == s[Len(s)] IN
         IF KeyCompareRaises(sort_key(p), sort_key(q)) THEN Raised
         ELSE IF KeyLess(sort_key(p), sort_key(q))
              THEN LET r == InsertByKey(p, Front(s)) IN
                   IF r.raised THEN Raised ELSE Returned(Append(r.list, q))
              ELSE Returned(Append(s, p))

RECURSIVE SortByKey(_)
SortByKey(c) ==
    IF c = <<>> THEN Returned(<<>>)
    ELSE LET r == SortByKey(Front(c)) IN
         IF r.raised THEN Raised ELSE InsertByKey(c[Len(c)], r.list)

\* IsCandidate without the daily test
IsCandidate_NoDailyTest(p, exclude_daily) ==
    p.id \notin exclude_daily /\ p.path # ""

\* the filter of the list comprehension
IsCandidate(p, exclude_daily) ==
    p.id \notin exclude_daily /\ p.path # "" /\ ~p.daily

Candidates(table, exclude_daily) ==
    SelectSeq(load_projects_from_supabase(table),
              LAMBDA p : IsCandidate(p, exclude_daily))

select_rotation_projects(table, exclude_daily, num_slots) ==
    LET sorted == SortByKey(Candidates(table, exclude_daily))
    IN  IF sorted.raised THEN Raised
        ELSE Returned(Take(sorted.list, num_slots))

(***************************************************************************)
(* The weekly template (a JSON object).                                    *)
(*   personal_blocks  name -> block; a block is a clock-time string or,    *)
(*                    for gym, an object {time, days, duration_minutes}    *)
(*   work_blocks      name -> {start, end, project, description}           *)
(*   evening          name -> clock-time string                            *)
(* A key that an object does not have carries the value Absent.            *)
(***************************************************************************)
StrBlock(t) ==
    [kind |-> "str", time |-> t, has_days |-> FALSE, days |-> <<>>,
     duration_minutes |-> Absent]

DictBlock(t, has_days, days, duration) ==
    [kind |-> "dict", time |-> t, has_days |-> has_days, days |-> days,
     duration_minutes |-> duration]

WorkBlock(start, end, project, description) ==
    [start |-> start, end |-> end, project |-> project,
     description |-> description]

\* Python truth value of a personal block / of a work block object
BlockTruthy(b) ==
    IF b.kind = "str" THEN b.time # ""
    ELSE b.time # Absent \/ b.has_days \/ b.duration_minutes # Absent

WorkBlockTruthy(b) ==
    b.start # Absent \/ b.end # Absent \/ b.project # Absent
        \/ b.description # Absent

LowerDays == <<"monday", "wednesday", "friday">>

get_default_template ==
    [personal_blocks |->
        [k \in {"wake", "gym", "stretch", "shower", "ready"} |->
            CASE k = "wake"    -> StrBlock("7:00 AM")
              [] k = "gym"     -> DictBlock("8:00 AM", TRUE, LowerDays, "90")
              [] k = "stretch" -> StrBlock("9:30 AM")
              [] k = "shower"  -> StrBlock("10:00 AM")
              [] k = "ready"   -> StrBlock("10:30 AM")],
     work_blocks |->
        [k \in {"primary", "break_1", "rotation_1", "rotation_2"} |->
            CASE k = "primary" ->
                    WorkBlock("12:00 PM", "3:00 PM", "sigmavue",
                              "Sigmavue Deep Work (Non-negotiable)")
              [] k = "break_1" ->
                    WorkBlock("3:00 PM", "3:30 PM", Absent, "Break / Reset")
              [] k = "rotation_1" ->
                    WorkBlock("3:30 PM", "5:00 PM", Absent,
                              "Client/Personal Project Rotation Slot 1")
              [] k = "rotation_2" ->
                    WorkBlock("5:00 PM", "7:00 PM", Absent,
                              "Client/Personal Project Rotation Slot 2")],
     evening |->
        [k \in {"end_work", "dinner", "wind_down"} |->
            CASE k = "end_work"  -> "7:00 PM"
              [] k = "dinner"    -> "7:30 PM"
              [] k = "wind_down" -> "9:00 PM"]]

\* the settings row: present with a value, or not there
NoRow == [present |-> FALSE, value |-> get_default_template]
Row(v) == [present |-> TRUE, value |-> v]

\* load_weekly_template: the stored value, the default when there is no row
load_weekly_template(row) ==
    IF row.present THEN row.value ELSE get_default_template

(***************************************************************************)
(* Dates are day numbers; day 0 is a Monday.                               *)
(***************************************************************************)
WeekdayNames ==
    <<"Monday", "Tuesday", "Wednesday", "Thursday", "Friday", "Saturday",
      "Sunday">>

LowerNames ==
    <<"monday", "tuesday", "wednesday", "thursday", "friday", "saturday",
      "sunday">>

\* str.lower() on the strings that occur as day names
Lower(s) ==
    IF \E i \in 1..7 : WeekdayNames[i] = s
    THEN LowerNames[CHOOSE i \in 1..7 : WeekdayNames[i] = s]
    ELSE s

\* d.strftime("%A")
Strftime_A(d) == WeekdayNames[(d % 7) + 1]

get_day_name(d) == Lower(Strftime_A(d))

(***************************************************************************)
(* generate_daily_schedule: the rendered lines, one record per line.       *)
(***************************************************************************)
\* detail: the PRD digest attached to the line; no line is given one
Line(kind, start, end, title) ==
    [kind |-> kind, start |-> start, end |-> end, title |-> title,
     detail |-> Absent]

Get(f, k, default) == IF k \in DOMAIN f THEN f[k] ELSE default

EmptyDict == DictBlock(Absent, FALSE, <<>>, Absent)
EmptyWork == WorkBlock(Absent, Absent, Absent, Absent)

\* "if personal.get(k)": the key is there and its value is truthy
PersonalSet(personal, k) == k \in DOMAIN personal /\ BlockTruthy(personal[k])

SimpleLine(personal, k, title) ==
    IF PersonalSet(personal, k)
    THEN <<Line(k, personal[k].time, Absent, title)>>
    ELSE <<>>

\* day_name in gym_config.get("days", [])
GymDayMatches(gym, day_name) ==
    gym.has_days /\ \E i \in 1..Len(gym.days) : gym.days[i] = day_name

\* the gym test of line 161 is reached with a truthy gym_config
GymTested(personal) == PersonalSet(personal, "gym")

\* gym_config.get on a string: AttributeError; gym_config['time'] on an
\* object without time: KeyError
GymRaises(personal, day_name) ==
    /\ GymTested(personal)
    /\ \/ personal["gym"].kind = "str"
       \/ GymDayMatches(personal["gym"], day_name)
            /\ personal["gym"].time = Absent

GymLine(personal, day_name) ==
    IF GymTested(personal) /\ GymDayMatches(personal["gym"], day_name)
    THEN <<Line("gym", personal["gym"].time, Absent, "Gym")>>
    ELSE <<>>

MorningLines(personal, day_name) ==
    <<Line("section", Absent, Absent, "Morning Routine")>>
        \o SimpleLine(personal, "wake", "Wake up")
        \o GymLine(personal, day_name)
        \o SimpleLine(personal, "stretch", "Stretch / Recovery")
        \o SimpleLine(personal, "shower", "Shower")
        \o SimpleLine(personal, "ready", "Ready / Personal time")

\* block['start'] / block['end'] on a truthy block lacking the key: KeyError
TimesRaise(work, k) ==
    LET b == Get(work, k, EmptyWork)
    IN  WorkBlockTruthy(b) /\ (b.start = Absent \/ b.end = Absent)

\* next((p for p in projects if p.get("id") == project_id), None)
FindProject(loaded, project_id) ==
    IF IndexOf(loaded, project_id) > 0
    THEN <<loaded[IndexOf(loaded, project_id)]>>
    ELSE <<>>

PrimaryLines(work, loaded) ==
    LET primary == Get(work, "primary", EmptyWork)
        project_id ==
            IF primary.project = Absent THEN "sigmavue" ELSE primary.project
        project == FindProject(loaded, project_id)
        project_name == IF project # <<>> THEN project[1].name ELSE "Sigmavue"
    IN  IF WorkBlockTruthy(primary)
        THEN <<Line("primary", primary.start, primary.end, project_name),
               Line("note", Absent, Absent, "Non-negotiable deep work block")>>
        ELSE <<>>

BreakLines(work) ==
    LET break_block == Get(work, "break_1", EmptyWork)
    IN  IF WorkBlockTruthy(break_block)
        THEN <<Line("break_1", break_block.start, break_block.end, "Break")>>
        ELSE <<>>

\* rotation slots filled in reverse: slot 1 with the second pick
RotationLines_OtherPick(work, k, n, rotation_projects, fallback) ==
    LET b == Get(work, k, EmptyWork)
    IN  IF WorkBlockTruthy(b)
        THEN IF Len(rotation_projects) > 1
             THEN <<Line(k, b.start, b.end, rotation_projects[3 - n].name)>>
             ELSE <<Line(k, b.start, b.end,
                         IF b.description = Absent THEN fallback
                         ELSE b.description)>>
        ELSE <<>>

\* slot n of the rotation (n = 1, 2): the n-th pick, else the description
RotationLines(work, k, n, rotation_projects, fallback) ==
    LET b == Get(work, k, EmptyWork)
    IN  IF WorkBlockTruthy(b)
        THEN IF Len(rotation_projects) > n - 1
             THEN <<Line(k, b.start, b.end, rotation_projects[n].name)>>
             ELSE <<Line(k, b.start, b.end,
                         IF b.description = Absent THEN fallback
                         ELSE b.description)>>
        ELSE <<>>

EveningTime(evening, k, title) ==
    IF k \in DOMAIN evening /\ evening[k] # ""
    THEN <<Line(k, evening[k], Absent, title)>>
    ELSE <<>>

EveningLines(evening) ==
    IF DOMAIN evening # {}
    THEN <<Line("section", Absent, Absent, "Evening")>>
            \o EveningTime(evening, "end_work", "End work")
            \o EveningTime(evening, "dinner", "Dinner")
            \o EveningTime(evening, "wind_down", "Wind down")
    ELSE <<>>

SignalLines(rotation_projects) ==
    <<Line("section", Absent, Absent, "Top 3 Signal Tasks"),
      Line("signal", Absent, Absent, "Sigmavue")>>
        \o (IF Len(rotation_projects) > 0
            THEN <<Line("signal", Absent, Absent, rotation_projects[1].name)>>
            ELSE <<>>)
        \o (IF Len(rotation_projects) > 1
            THEN <<Line("signal", Absent, Absent, rotation_projects[2].name)>>
            ELSE <<>>)

\* date_str absent: datetime.now().date()
NoDate == -1

TargetDate_IgnoresArgument(date_str, today) == today

TargetDate(date_str, today) == IF date_str = NoDate THEN today ELSE date_str

\* what a tool call yields: whether it raised, its output, and the contents
\* of the two tables when it ends
Outcome(raised, lines, picks, table, row, wrote) ==
    [raised |-> raised, lines |-> lines, picks |-> picks,
     projects |-> table, template |-> row, wrote |-> wrote]

\* the assembly reads the projects table twice: at line 147 for the primary
\* block (table) and inside select_rotation_projects (table_at_select)
AssembleSchedule(table, table_at_select, row, today, date_str) ==
    LET target_date == TargetDate(date_str, today)
        day_name == get_day_name(target_date)
        tmpl == load_weekly_template(row)
        loaded == load_projects_from_supabase(table)
        personal == tmpl.personal_blocks
        work_blocks == tmpl.work_blocks
        rotation == select_rotation_projects(table_at_select, {"sigmavue"}, 2)
        raises ==
            \/ GymRaises(personal, day_name)
            \/ TimesRaise(work_blocks, "primary")
            \/ TimesRaise(work_blocks, "break_1")
            \/ rotation.raised
            \/ TimesRaise(work_blocks, "rotation_1")
            \/ TimesRaise(work_blocks, "rotation_2")
    IN  IF raises THEN [raised |-> TRUE, lines |-> <<>>, picks |-> <<>>]
        ELSE [raised |-> FALSE,
              picks |-> rotation.list,
              lines |->
                <<Line("header", target_date, Absent, "Schedule")>>
                    \o MorningLines(personal, day_name)
                    \o <<Line("section", Absent, Absent, "Work Blocks")>>
                    \o PrimaryLines(work_blocks, loaded)
                    \o BreakLines(work_blocks)
                    \o RotationLines(work_blocks, "rotation_1", 1,
                                     rotation.list, "Project Rotation 1")
                    \o RotationLines(work_blocks, "rotation_2", 2,
                                     rotation.list, "Project Rotation 2")
                    \o EveningLines(tmpl.evening)
                    \o SignalLines(rotation.list)
                    \o <<Line("notes", Absent, Absent, "Calendly")>>]

\* both reads see the same table: no write arrives during the call
ScheduleLines(table, row, today, date_str) ==
    AssembleSchedule(table, table, row, today, date_str)

\* the timestamp a TIMESTAMPTZ column returns for a written ISO string
Timestamptz(t) == [fmt |-> "offset", t |-> t]

\* a schedule generator that also stamps last_worked on its picks
generate_daily_schedule_Stamping(table, row, today, date_str) ==
    LET s == ScheduleLines(table, row, today, date_str)
    IN  Outcome(s.raised, s.lines, s.picks,
                [i \in 1..Len(table) |->
                    IF IndexOf(s.picks, table[i].id) > 0
                    THEN [table[i] EXCEPT !.last_worked = Timestamptz(today)]
                    ELSE table[i]],
                row, TRUE)

generate_daily_schedule(table, row, today, date_str) ==
    LET s == ScheduleLines(table, row, today, date_str)
    IN  Outcome(s.raised, s.lines, s.picks, table, row, FALSE)

(***************************************************************************)
(* Strings as character sequences, for the substring tests of ILIKE and of *)
(* "block_name.lower() in key.lower()".                                    *)
(***************************************************************************)
Chars(str) ==
    CASE str = "sigmavue"   -> <<"s", "i", "g", "m", "a", "v", "u", "e">>
      [] str = "alpha"      -> <<"a", "l", "p", "h", "a">>
      [] str = "beta"       -> <<"b", "e", "t", "a">>
      [] str = "gamma"      -> <<"g", "a", "m", "m", "a">>
      [] str = "delta"      -> <<"d", "e", "l", "t", "a">>
      [] str = "a"          -> <<"a">>
      [] str = "zzz"        -> <<"z", "z", "z">>
      [] str = "gym"        -> <<"g", "y", "m">>
      [] str = "nap"        -> <<"n", "a", "p">>
      [] str = "primary"    -> <<"p", "r", "i", "m", "a", "r", "y">>
      [] str = "break_1"    -> <<"b", "r", "e", "a", "k", "_", "1">>
      [] str = "rotation"   -> <<"r", "o", "t", "a", "t", "i", "o", "n">>
      [] str = "rotation_1" ->
            <<"r", "o", "t", "a", "t", "i", "o", "n", "_", "1">>
      [] str = "rotation_2" ->
            <<"r", "o", "t", "a", "t", "i", "o", "n", "_", "2">>

IsSubstring(a, b) ==
    \E i \in 1..(Len(b) - Len(a) + 1) : SubSeq(b, i, i + Len(a) - 1) = a

\* name ILIKE '%pattern%'
Ilike(name, pattern) == IsSubstring(Chars(pattern), Chars(name))

(***************************************************************************)
(* update_project_last_worked (tools/projects.py): stamp every row whose   *)
(* name contains project_name.  The naive ISO string written into the      *)
(* TIMESTAMPTZ column reads back with a UTC offset.                        *)
(***************************************************************************)
update_project_last_worked(table, row, today, project_name) ==
    LET stamped ==
            [i \in 1..Len(table) |->
                IF Ilike(table[i].name, project_name)
                THEN [table[i] EXCEPT !.last_worked = Timestamptz(today)]
                ELSE table[i]]
    IN  Outcome(FALSE, <<>>, <<>>, stamped, row, TRUE)

(***************************************************************************)
(* update_schedule (tools/schedule.py).  An argument not given is Absent.  *)
(***************************************************************************)
SetIfGiven(old, arg) == IF arg # Absent /\ arg # "" THEN arg ELSE old

Given(arg) == arg # Absent /\ arg # ""

update_schedule(table, row, block_name, start_time, end_time, project) ==
    LET tmpl == load_weekly_template(row)
        work == tmpl.work_blocks
        personal == tmpl.personal_blocks
        in_work == block_name \in DOMAIN work
        in_personal == ~in_work /\ block_name \in DOMAIN personal
        updated ==
            \/ in_work /\ (Given(start_time) \/ Given(end_time) \/ Given(project))
            \/ in_personal /\ Given(start_time)
        new_work ==
            IF in_work
            THEN [work EXCEPT ![block_name] =
                    [@ EXCEPT !.start = SetIfGiven(@, start_time),
                              !.end = SetIfGiven(@, end_time),
                              !.project = SetIfGiven(@, project)]]
            ELSE work
        new_personal ==
            IF in_personal /\ Given(start_time)
            THEN [personal EXCEPT ![block_name] =
                    IF @.kind = "dict" THEN [@ EXCEPT !.time = start_time]
                    ELSE StrBlock(start_time)]
            ELSE personal
        new_tmpl == [tmpl EXCEPT !.work_blocks = new_work,
                                 !.personal_blocks = new_personal]
    IN  IF updated
        THEN Outcome(FALSE, <<>>, <<>>, table, Row(new_tmpl), TRUE)
        ELSE Outcome(FALSE, <<>>, <<>>, table, row, FALSE)

(***************************************************************************)
(* update_schedule_template (tools/calendar_sync.py).                      *)
(***************************************************************************)
\* the default of get_schedule_template: work blocks carry no description
SyncDefaultTemplate ==
    [get_default_template EXCEPT !.work_blocks =
        [k \in DOMAIN @ |-> [@[k] EXCEPT !.description = Absent]]]

get_schedule_template(row) ==
    IF row.present THEN row.value ELSE SyncDefaultTemplate

\* local_ok: whether writing weekly-template.json in the workspace succeeds;
\* it is attempted after the store was written
update_schedule_template(table, row, block_name, start_time, end_time, days, local_ok) ==
    LET tmpl == get_schedule_template(row)
        work == tmpl.work_blocks
        personal == tmpl.personal_blocks
        in_personal == block_name \in DOMAIN personal
        is_dict == in_personal /\ personal[block_name].kind = "dict"
        hit(k) == IsSubstring(Chars(block_name), Chars(k))
        updated ==
            \/ is_dict /\ (Given(start_time) \/ days # <<>>)
            \/ in_personal /\ ~is_dict /\ Given(start_time)
            \/ \E k \in DOMAIN work :
                  hit(k) /\ (Given(start_time) \/ Given(end_time))
        new_personal ==
            IF ~in_personal THEN personal
            ELSE IF is_dict
                 THEN [personal EXCEPT ![block_name] =
                        [@ EXCEPT !.time = SetIfGiven(@, start_time),
                                  !.has_days = @ \/ days # <<>>,
                                  !.days = IF days # <<>> THEN days ELSE @]]
                 ELSE IF Given(start_time)
                      THEN [personal EXCEPT ![block_name] = StrBlock(start_time)]
                      ELSE personal
        new_work ==
            [k \in DOMAIN work |->
                IF hit(k)
                THEN [work[k] EXCEPT !.start = SetIfGiven(@, start_time),
                                     !.end = SetIfGiven(@, end_time)]
                ELSE work[k]]
        new_tmpl == [tmpl EXCEPT !.work_blocks = new_work,
                                 !.personal_blocks = new_personal]
    IN  IF updated
        THEN Outcome(~local_ok, <<>>, <<>>, table, Row(new_tmpl), TRUE)
        ELSE Outcome(FALSE, <<>>, <<>>, table, row, FALSE)

(***************************************************************************)
(* Writes to the projects table: scan_and_add_project (tools/projects.py)  *)
(* and sync_projects_to_db (database.py), both upserts on the key id.      *)
(***************************************************************************)
\* upsert of one row; columns the statement does not name keep their value
Upsert(table, data, names_last_worked) ==
    IF IndexOf(table, data.id) > 0
    THEN LET i == IndexOf(table, data.id)
         IN  [table EXCEPT ![i] =
                IF names_last_worked THEN data
                ELSE [data EXCEPT !.last_worked = table[i].last_worked]]
    ELSE Append(table, data)

\* max((p.get("priority", 0) for p in projects), default=0)
MaxPriorityIn(table) ==
    IF table = <<>> THEN 0
    ELSE CHOOSE m \in {table[i].priority : i \in 1..Len(table)} :
            \A i \in 1..Len(table) : table[i].priority <= m

\* project names are lower-case words, so the id derived from a name is
\* the name
scan_and_add_project(table, row, project_path, project_name) ==
    LET registered == \E i \in 1..Len(table) : table[i].path = project_path
        project_data ==
            [id |-> project_name, name |-> project_name,
             path |-> project_path,
             prd_status_path |-> PrdStatusPathOf(project_name),
             daily |-> FALSE, priority |-> MaxPriorityIn(table) + 1,
             last_worked |-> NeverWorked]
    IN  IF registered
        THEN Outcome(FALSE, <<>>, <<>>, table, row, FALSE)
        ELSE Outcome(FALSE, <<>>, <<>>, Upsert(table, project_data, FALSE),
                     row, TRUE)

\* one upsert per project of the registry, every column named
RECURSIVE sync_rows(_, _)
sync_rows(table, registry) ==
    IF registry = <<>> THEN table
    ELSE sync_rows(Upsert(table, registry[1], TRUE),
                   SubSeq(registry, 2, Len(registry)))

sync_projects_to_db(table, row, registry) ==
    Outcome(FALSE, <<>>, <<>>, sync_rows(table, registry), row,
            registry # <<>>)

(***************************************************************************)
(* The tool calls as actions.                                              *)
(***************************************************************************)
\* no generate_daily_schedule call is between its reads
\* seen: the contents the projects table has had since the call began
NoPending ==
    [active |-> FALSE, date_str |-> 0, today |-> 0, row |-> NoRow,
     table |-> <<>>, seen |-> {}]

\* no agent run has been started
NoRun ==
    [node |-> "idle", messages |-> <<>>, response |-> Absent]

\* no webhook request has been received
NoRequest ==
    [status |-> 0, verified |-> FALSE, parsed |-> FALSE, notified |-> FALSE,
     secret |-> FALSE, signature |-> <<>>, body |-> Absent]

\* no Telegram update has been handled; sent: the messages the bot has sent
NoUpdate ==
    [handler |-> "none", user |-> Absent, invoked |-> {}, stored |-> FALSE,
     replies |-> <<>>, sent |-> {}]

\* last_responses = {} (telegram_bot.py:46)
NoResponses == [u \in {} |-> Absent]

\* an empty calendar on which no sync has run
NoEvents ==
    [donna |-> <<>>, other |-> {}, op |-> <<"none">>, before |-> <<>>,
     delete_failed |-> FALSE, insert_failed |-> FALSE, again |-> FALSE]

\* no template update call is between its read and its write
NoEditors == {}

ServiceInit ==
    /\ graph = NoRun
    /\ webhook = NoRequest
    /\ telegram = NoUpdate
    /\ last_responses = NoResponses
    /\ calendar = NoEvents
    /\ editors = NoEditors

\* no scheduler object exists yet
\* sync: the last run of the job sync_calendly
NoSync ==
    [ran |-> FALSE, configured |-> FALSE, events |-> "none", sent |-> FALSE]

NoScheduler ==
    [entry |-> "none", running |-> FALSE, jobs |-> {}, fired |-> {},
     bot |-> FALSE, sync |-> NoSync]

\* again: the call before this one was the same tool for the same date
NoCall ==
    [op |-> "none", exclude |-> {}, num_slots |-> 0, date |-> 0,
     raised |-> FALSE, picks |-> <<>>, lines |-> <<>>, wrote |-> FALSE,
     again |-> FALSE, seen |-> {}, block |-> Absent]

\* a call ends: its outcome is recorded and the tables are as it left them
FinishCall(op, date, block_name, out) ==
    /\ call' = [NoCall EXCEPT !.op = op, !.date = date,
                              !.block = block_name,
                              !.raised = out.raised, !.picks = out.picks,
                              !.lines = out.lines, !.wrote = out.wrote,
                              !.again = (call.op = op /\ call.date = date)]
    /\ projects' = out.projects
    /\ template' = out.template
    /\ pending' = IF pending.active
                  THEN [pending EXCEPT !.seen = @ \cup {out.projects}]
                  ELSE pending
    /\ UNCHANGED <<now, scheduler, service>>

Finish(op, date, out) == FinishCall(op, date, Absent, out)

SelectRotationProjects(exclude_daily, num_slots) ==
    \E res \in {select_rotation_projects(projects, exclude_daily, num_slots)} :
        /\ call' = [NoCall EXCEPT !.op = "select_rotation_projects",
                                  !.exclude = exclude_daily,
                                  !.num_slots = num_slots,
                                  !.raised = res.raised,
                                  !.picks = res.list]
        /\ UNCHANGED <<projects, template, now, pending, scheduler, service>>

GenerateDailySchedule(date_str) ==
    \E out \in {generate_daily_schedule(projects, template, now, date_str)} :
        Finish("generate_daily_schedule",
               IF date_str = NoDate THEN now ELSE date_str, out)

UpdateProjectLastWorked(project_name) ==
    \E out \in {update_project_last_worked(projects, template, now,
                                            project_name)} :
        Finish("update_project_last_worked", 0, out)

UpdateSchedule(args) ==
    \E out \in {update_schedule(projects, template, args[1], args[2],
                                 args[3], args[4])} :
        FinishCall("update_schedule", 0, args[1], out)

UpdateScheduleTemplate(args, local_ok) ==
    \E out \in {update_schedule_template(projects, template, args[1],
                                          args[2], args[3], args[4],
                                          local_ok)} :
        FinishCall("update_schedule_template", 0, args[1], out)

ScanAndAddProject(args) ==
    /\ Len(projects) < MaxProjects \/ IndexOf(projects, args[2]) > 0
    /\ \E out \in {scan_and_add_project(projects, template, args[1],
                                        args[2])} :
          Finish("scan_and_add_project", 0, out)

SyncProjectsToDb(registry) ==
    \E out \in {sync_projects_to_db(projects, template, registry)} :
        Finish("sync_projects_to_db", 0, out)

(***************************************************************************)
(* generate_daily_schedule as its two reads of the projects table: the     *)
(* load at line 147, then the load inside select_rotation_projects called  *)
(* at line 194.  Other callers' writes may land in between.                *)
(***************************************************************************)
GenerateLoadProjects(date_str) ==
    /\ ~pending.active
    /\ pending' = [active |-> TRUE, date_str |-> date_str, today |-> now,
                   row |-> template, table |-> projects,
                   seen |-> {projects}]
    /\ UNCHANGED <<projects, template, now, call, scheduler, service>>

GenerateSelectRotation ==
    /\ pending.active
    /\ \E s \in {AssembleSchedule(pending.table, projects, pending.row,
                                   pending.today, pending.date_str)} :
          call' = [NoCall EXCEPT
                     !.op = "generate_daily_schedule",
                     !.date = TargetDate(pending.date_str, pending.today),
                     !.raised = s.raised, !.picks = s.picks,
                     !.lines = s.lines, !.seen = pending.seen]
    /\ pending' = NoPending
    /\ UNCHANGED <<projects, template, now, scheduler, service>>

(***************************************************************************)
(* The scheduled-job runner (scheduler.py) and the two ways the service    *)
(* starts it (main.py, server.py).                                         *)
(***************************************************************************)
\* the jobs DonnaScheduler.initialize registers
InitializedJobs ==
    {"morning_brief", "calendly_sync", "evening_summary",
     "sigmavue_reminder", "break_reminder", "rotation1_reminder",
     "event_check", "weekly_review", "week_ahead"}

\* main.py: start_scheduler -> get_scheduler (construct, initialize), start
StartScheduler ==
    /\ scheduler.entry = "none"
    /\ scheduler' = [NoScheduler EXCEPT !.entry = "main", !.running = TRUE,
                                         !.jobs = InitializedJobs,
                                         !.bot = TRUE]
    /\ UNCHANGED <<projects, template, now, call, pending, service>>

\* server.py lifespan: DonnaScheduler() then start(), initialize not called
Lifespan ==
    /\ scheduler.entry = "none"
    /\ scheduler' = [NoScheduler EXCEPT !.entry = "server",
                                         !.running = TRUE]
    /\ UNCHANGED <<projects, template, now, call, pending, service>>

\* a registered job's trigger time comes; the morning brief generates the
\* schedule of today, the evening summary that of tomorrow
FireJob(job) ==
    /\ scheduler.running
    /\ job \in scheduler.jobs
    /\ scheduler' = [scheduler EXCEPT !.fired = @ \cup {job}]
    /\ \E d \in {CASE job = "morning_brief" -> NoDate
                     [] job = "evening_summary" -> now + 1
                     [] OTHER -> NoDate - 1} :
          IF d = NoDate - 1
          THEN /\ call' = [NoCall EXCEPT !.op = job]
               /\ UNCHANGED <<projects, template>>
          ELSE \E out \in {generate_daily_schedule(projects, template, now,
                                                   d)} :
                  /\ call' = [NoCall EXCEPT
                                !.op = "generate_daily_schedule",
                                !.date = TargetDate(d, now),
                                !.raised = out.raised, !.picks = out.picks,
                                !.lines = out.lines]
                  /\ projects' = out.projects
                  /\ template' = out.template
    /\ UNCHANGED <<now, pending, service>>

\* check_calendly_conflicts: the words of the text it returns, in lower
\* case.  With a key set it is the report frame around the events text.
get_calendly_events(events) ==
    CASE events = "none" -> <<"no", "calendly", "events", "scheduled">>
      [] events = "apart" -> <<"upcoming", "calendly", "events", "call 9 am">>
      [] OTHER -> <<"upcoming", "calendly", "events", "call 1 pm">>

check_calendly_conflicts(configured, events) ==
    IF ~configured
    THEN <<"calendly", "not", "configured">>
    ELSE <<"conflict", "check", "for", "today">>
            \o get_calendly_events(events)
            \o <<"conflict", "resolution", "if", "any", "calendly",
                  "events", "overlap", "the", "call", "takes", "priority">>

\* "conflict" in conflicts.lower()
MentionsConflict(text) == \E i \in 1..Len(text) : text[i] = "conflict"

\* the job sync_calendly: whether it sends "Schedule Conflict Detected"
sync_calendly(configured, events, bot) ==
    IF ~configured
    THEN FALSE
    ELSE MentionsConflict(check_calendly_conflicts(configured, events))
            /\ bot

\* the Calendly events of the day: none, one outside the project blocks,
\* one overlapping a project block
DayEvents == {"none", "apart", "overlap"}

SyncCalendly(configured, events) ==
    /\ scheduler.running
    /\ "calendly_sync" \in scheduler.jobs
    /\ \E sends \in {sync_calendly(configured, events, scheduler.bot)} :
          /\ scheduler' = [scheduler EXCEPT
                             !.fired = @ \cup {"calendly_sync"},
                             !.sync = [ran |-> TRUE,
                                       configured |-> configured,
                                       events |-> events, sent |-> sends]]
          /\ telegram' = IF sends
                         THEN [telegram EXCEPT
                                 !.sent = @ \cup {"schedule_conflict"}]
                         ELSE telegram
    /\ UNCHANGED <<projects, template, now, call, pending, graph, webhook,
                   last_responses, calendar, editors>>

\* time passes
Tick ==
    /\ now < MaxTime
    /\ now' = now + 1
    /\ UNCHANGED <<projects, template, call, pending, scheduler, service>>

(***************************************************************************)
(* Specification SpecSelect: select_rotation_projects applied once to      *)
(* every table, exclusion list and slot count of the bounds.               *)
(***************************************************************************)
ExcludeLists == {S \in SUBSET IdSet : Cardinality(S) <= MaxExclude}

InitSelect ==
    /\ projects \in Tables
    /\ template = NoRow
    /\ now = 1
    /\ call = NoCall
    /\ pending = NoPending
    /\ scheduler = NoScheduler
    /\ ServiceInit

NextSelect ==
    /\ call.op = "none"
    /\ \E ex \in ExcludeLists, n \in 0..MaxSlots :
          SelectRotationProjects(ex, n)

SpecSelect == InitSelect /\ [][NextSelect]_vars

(***************************************************************************)
(* Specification Spec: the assistant's tools over the registry and the     *)
(* stored template.                                                        *)
(***************************************************************************)
\* the registry: the daily project first, then rotation projects, each
\* with the next priority, none worked yet
RegistryRow(i) ==
    [id |-> ProjectIds[i], name |-> ProjectIds[i], path |-> "/p",
     prd_status_path |-> PrdStatusPathOf(ProjectIds[i]),
     daily |-> (i = 1), priority |-> i, last_worked |-> NeverWorked]

SeedTables == {[i \in 1..n |-> RegistryRow(i)] : n \in 0..MaxProjects}

CapitalDays == <<"Monday", "Wednesday", "Friday">>

WithGym(tmpl, gym) ==
    [tmpl EXCEPT !.personal_blocks = [@ EXCEPT !["gym"] = gym]]

WithoutGym(tmpl) ==
    [tmpl EXCEPT !.personal_blocks =
        [k \in DOMAIN @ \ {"gym"} |-> @[k]]]

WithoutWorkBlocks(tmpl) ==
    [tmpl EXCEPT !.work_blocks = [k \in {} |-> EmptyWork]]

\* the primary block stored without its start time
WithoutPrimaryStart(tmpl) ==
    [tmpl EXCEPT !.work_blocks =
        [@ EXCEPT !["primary"] = [@ EXCEPT !.start = Absent]]]

InitTemplates ==
    {NoRow,
     Row(get_default_template),
     Row(WithGym(get_default_template,
                 DictBlock("8:00 AM", FALSE, <<>>, "90"))),
     Row(WithGym(get_default_template, StrBlock("8:00 AM"))),
     Row(WithoutGym(get_default_template)),
     Row(WithoutWorkBlocks(get_default_template)),
     Row(WithoutPrimaryStart(get_default_template))}

NamePatterns == {"alpha", "a", "zzz"}

UpdateScheduleArgs ==
    {<<"primary", Absent, Absent, "alpha">>,
     <<"gym", "6:00 AM", Absent, Absent>>,
     <<"nap", "1:00 PM", Absent, Absent>>}

\* project_path, project_name: a folder not yet registered
ScanArgs == {<<"/q", "alpha">>, <<"/s", "sigmavue">>}

\* a local registry that marks two projects daily
SyncRegistries ==
    {<<RegistryRow(1), RegistryRow(2)>>,
     <<RegistryRow(1), [RegistryRow(2) EXCEPT !.daily = TRUE]>>}

UpdateTemplateArgs ==
    {<<"gym", Absent, Absent, CapitalDays>>,
     <<"rotation", Absent, Absent, <<>>>>}

Init ==
    /\ projects \in SeedTables
    /\ template \in InitTemplates
    /\ now = 1
    /\ call = NoCall
    /\ pending = NoPending
    /\ scheduler = NoScheduler
    /\ ServiceInit

Next ==
    \/ \E d \in {NoDate} \cup 0..MaxDate : GenerateDailySchedule(d)
    \/ SelectRotationProjects({"sigmavue"}, 2)
    \/ \E n \in NamePatterns : UpdateProjectLastWorked(n)
    \/ \E a \in UpdateScheduleArgs : UpdateSchedule(a)
    \/ \E a \in UpdateTemplateArgs, ok \in BOOLEAN :
          UpdateScheduleTemplate(a, ok)
    \/ Tick

Spec == Init /\ [][Next]_vars

(***************************************************************************)
(* Specification SpecStore: the writers of the projects table and of the   *)
(* primary block's binding.                                                *)
(***************************************************************************)
NextStore ==
    \/ \E a \in ScanArgs : ScanAndAddProject(a)
    \/ \E r \in SyncRegistries : SyncProjectsToDb(r)
    \/ \E a \in UpdateScheduleArgs : UpdateSchedule(a)
    \/ \E n \in NamePatterns : UpdateProjectLastWorked(n)
    \/ Tick

SpecStore == Init /\ [][NextStore]_vars

(***************************************************************************)
(* Specification SpecInterleaved: a generate_daily_schedule call whose two *)
(* reads interleave with other callers' project writes.                    *)
(***************************************************************************)
InitInterleaved ==
    /\ projects \in SeedTables
    /\ template \in {NoRow, Row(get_default_template)}
    /\ now = 1
    /\ call = NoCall
    /\ pending = NoPending
    /\ scheduler = NoScheduler
    /\ ServiceInit

NextInterleaved ==
    \/ \E d \in {NoDate} \cup 0..MaxDate : GenerateLoadProjects(d)
    \/ GenerateSelectRotation
    \/ \E n \in NamePatterns : UpdateProjectLastWorked(n)
    \/ \E a \in ScanArgs : ScanAndAddProject(a)

SpecInterleaved == InitInterleaved /\ [][NextInterleaved]_vars

(***************************************************************************)
(* Specification SpecBoot: the service starts through one of its entry     *)
(* points and the runner fires its jobs.                                   *)
(***************************************************************************)
ClaimedJobs == {"morning_brief", "evening_summary", "weekly_review"}

NextBoot ==
    \/ StartScheduler
    \/ Lifespan
    \/ \E j \in ClaimedJobs : FireJob(j)
    \/ \E c \in BOOLEAN, e \in DayEvents : SyncCalendly(c, e)
    \/ \E n \in NamePatterns : UpdateProjectLastWorked(n)
    \/ Tick

SpecBoot == InitInterleaved /\ [][NextBoot]_vars

(***************************************************************************)
(* Properties of select_rotation_projects, checked under SpecSelect.       *)
(***************************************************************************)
Selected == call.op = "select_rotation_projects"

\* eligibility as the specification words it
Eligible(p) == ~p.daily /\ p.path # "" /\ p.id \notin call.exclude

EligibleRows == {p \in Range(projects) : Eligible(p)}

HasTimestamp(p) == p.last_worked.fmt \in {"naive", "offset"}

\* a is returned ahead of b whenever b is returned
RanksBefore(a, b) ==
    IndexOf(call.picks, b.id) > 0 =>
        /\ IndexOf(call.picks, a.id) > 0
        /\ IndexOf(call.picks, a.id) < IndexOf(call.picks, b.id)

\* C1: select_rotation_projects never returns a project that is daily or
\* has a missing/empty path.
C1_NeverDailyOrPathless ==
    Selected =>
        \A i \in 1..Len(call.picks) :
            ~call.picks[i].daily /\ call.picks[i].path # ""

\* a call over a table holding a daily row with a path and a pathless row,
\* neither excluded by id, that returned some project
C1_Witness ==
    /\ Selected
    /\ \E p \in Range(projects) :
          p.daily /\ p.path # "" /\ p.id \notin call.exclude
    /\ \E p \in Range(projects) :
          ~p.daily /\ p.path = "" /\ p.id \notin call.exclude
    /\ Len(call.picks) >= 1
    /\ call.num_slots = MaxSlots

\* C2: select_rotation_projects returns at most num_slots projects and never
\* more than the number of eligible candidates.
C2_AtMostSlotsAndEligible ==
    Selected =>
        /\ Len(call.picks) <= call.num_slots
        /\ Len(call.picks) <= Cardinality(EligibleRows)

\* more eligible candidates than slots, and every slot filled
C2_Witness ==
    /\ Selected
    /\ call.num_slots >= 1
    /\ Cardinality(EligibleRows) > call.num_slots
    /\ Len(call.picks) = call.num_slots

\* C3: with fewer eligible candidates than slots the call returns all of
\* them and never raises, whatever their stored last_worked values are.
C3_ReturnsAllNeverRaises ==
    (Selected /\ Cardinality(EligibleRows) < call.num_slots) =>
        /\ ~call.raised
        /\ Range(call.picks) = EligibleRows
        /\ Len(call.picks) = Cardinality(EligibleRows)

\* C4: the call returns a list in which an eligible never-worked project
\* ranks before every eligible project with a concrete last_worked.
C4_NeverWorkedRanksFirst ==
    Selected =>
        \A a, b \in EligibleRows :
            (a.last_worked.fmt = "none" /\ HasTimestamp(b)) =>
                ~call.raised /\ RanksBefore(a, b)

StaleKey(p) == IF HasTimestamp(p) THEN p.last_worked.t ELSE 0

RankLeq(a, b) ==
    \/ StaleKey(a) < StaleKey(b)
    \/ StaleKey(a) = StaleKey(b) /\ a.priority <= b.priority

\* C6: the result is the first num_slots elements of the eligible candidates
\* sorted ascending by (last_worked with never-worked as minimum, priority).
C6_SortedPrefixOfEligible ==
    Selected =>
        /\ ~call.raised
        /\ Range(call.picks) \subseteq EligibleRows
        /\ Len(call.picks) =
              (IF call.num_slots < Cardinality(EligibleRows)
               THEN call.num_slots ELSE Cardinality(EligibleRows))
        /\ Cardinality(Range(call.picks)) = Len(call.picks)
        /\ \A i, j \in 1..Len(call.picks) :
              i < j => RankLeq(call.picks[i], call.picks[j])
        /\ \A p \in EligibleRows \ Range(call.picks) :
              \A i \in 1..Len(call.picks) : RankLeq(call.picks[i], p)

\* the scenario of C6: A never worked with priority 2, B worked with
\* priority 1, C daily and excluded, two slots, result <<A, B>>
C6_Scenario ==
    /\ Selected
    /\ call.num_slots = 2
    /\ ~call.raised
    /\ Len(call.picks) = 2
    /\ call.picks[1].last_worked.fmt = "none" /\ call.picks[1].priority = 2
    /\ call.picks[2].last_worked.fmt = "naive" /\ call.picks[2].priority = 1
    /\ \E c \in Range(projects) : c.daily /\ call.exclude = {c.id}

(***************************************************************************)
(* Properties of generate_daily_schedule, checked under Spec.              *)
(***************************************************************************)
Generated == call.op = "generate_daily_schedule"

ReadPaths == {"generate_daily_schedule", "select_rotation_projects"}

\* the personal blocks of the template in force
StoredPersonal ==
    (IF template.present THEN template.value
     ELSE get_default_template).personal_blocks

HasLine(kind) == \E i \in 1..Len(call.lines) : call.lines[i].kind = kind

\* C7: select_rotation_projects and generate_daily_schedule are read paths:
\* a step that is one of these calls changes no project row and not the
\* stored template, and issues no write.
C7_ReadPathsWriteNothing ==
    [][call'.op \in ReadPaths =>
          /\ projects' = projects
          /\ template' = template
          /\ ~call'.wrote]_vars

\* a schedule was generated from a stored template and a registry in which
\* projects have been worked on, and rotation slots were filled
C7_Witness ==
    /\ Generated
    /\ ~call.raised
    /\ Len(call.picks) = 2
    /\ template.present
    /\ \E p \in Range(projects) : p.last_worked.fmt = "offset"

\* C8: generate_daily_schedule is idempotent: a second call for the same
\* date, with no other tool call in between, has the same outcome and the
\* same lines in the same order.
C8_Idempotent ==
    [][(/\ call.op = "generate_daily_schedule"
        /\ call'.op = "generate_daily_schedule"
        /\ call'.date = call.date)
          => (call'.raised = call.raised /\ call'.lines = call.lines)]_vars

\* a repeated call for the same explicit date, made on a later day than that
\* date, which rendered the gym block and a rotation project
C8_Witness ==
    /\ Generated
    /\ call.again
    /\ ~call.raised
    /\ call.date < now
    /\ HasLine("gym")
    /\ Len(call.picks) >= 1

\* the weekday of the target date is in the day-set, ignoring case
DayInSet(days, d) ==
    \E i \in 1..Len(days) : Lower(days[i]) = Lower(Strftime_A(d))

\* C9: a personal block with a day-set (gym) is in the schedule exactly
\* when the target date's weekday name is in that set, compared
\* case-insensitively.
C9_GymOnItsDays ==
    (/\ Generated
     /\ ~call.raised
     /\ "gym" \in DOMAIN StoredPersonal
     /\ StoredPersonal["gym"].kind = "dict"
     /\ StoredPersonal["gym"].has_days)
        => (HasLine("gym") <=> DayInSet(StoredPersonal["gym"].days, call.date))

\* the example of C9 with lower-case names: the gym block configured for
\* monday/wednesday/friday is rendered for a Monday
C9_LowerCaseMonday ==
    /\ Generated
    /\ ~call.raised
    /\ "gym" \in DOMAIN StoredPersonal
    /\ StoredPersonal["gym"].days = LowerDays
    /\ Strftime_A(call.date) = "Monday"
    /\ HasLine("gym")

\* C10: every configured personal block without a day-set, the gym block
\* included, is in the schedule on every day.
C10_BlocksWithoutDaysEveryDay ==
    (Generated /\ ~call.raised) =>
        \A k \in DOMAIN StoredPersonal :
            (BlockTruthy(StoredPersonal[k]) /\ ~StoredPersonal[k].has_days)
                => HasLine(k)

\* the every-day blocks of the default template are rendered on a Tuesday
C10_PlainBlocksOnTuesday ==
    /\ Generated
    /\ ~call.raised
    /\ Strftime_A(call.date) = "Tuesday"
    /\ HasLine("wake") /\ HasLine("stretch") /\ HasLine("shower")
    /\ HasLine("ready")
    /\ ~HasLine("gym")

(***************************************************************************)
(* Degraded inputs of generate_daily_schedule, checked under Spec.         *)
(***************************************************************************)
\* the work blocks of the template in force
StoredWork ==
    (IF template.present THEN template.value
     ELSE get_default_template).work_blocks

\* the projects select_rotation_projects would take as candidates
NoEligibleProject ==
    \A p \in Range(projects) : ~IsCandidate(p, {"sigmavue"})

\* every personal block that is set, gym apart, has its line
PersonalRendered ==
    \A k \in {"wake", "stretch", "shower", "ready"} :
        PersonalSet(StoredPersonal, k) => HasLine(k)

\* the primary and the break block, where configured, have their lines
FixedRendered ==
    \A k \in {"primary", "break_1"} :
        (k \in DOMAIN StoredWork /\ WorkBlockTruthy(StoredWork[k]))
            => HasLine(k)

\* C11: with no weekly_template row in the settings table the built-in
\* default template is used and generate_daily_schedule returns a non-empty
\* schedule instead of failing.
C11_MissingTemplateFallsBack ==
    (Generated /\ ~template.present) =>
        (~call.raised /\ call.lines # <<>> /\ HasLine("wake")
            /\ HasLine("primary"))

\* no template row: the default's blocks are rendered and both rotation
\* slots are filled
C11_DefaultRendered ==
    /\ Generated
    /\ ~template.present
    /\ ~call.raised
    /\ HasLine("wake") /\ HasLine("primary") /\ HasLine("break_1")
    /\ Len(call.picks) = 2

\* C12: with no eligible non-daily project the rotation is empty and
\* generate_daily_schedule still renders the personal blocks and the primary
\* and break blocks.
C12_ZeroEligibleStillRenders ==
    (Generated /\ NoEligibleProject) =>
        (~call.raised /\ call.picks = <<>> /\ PersonalRendered
            /\ FixedRendered)

\* no eligible project: the default template's personal and fixed blocks
\* are rendered and the rotation slots show their descriptions
C12_EmptyRotationRendered ==
    /\ Generated
    /\ NoEligibleProject
    /\ projects # <<>>
    /\ ~call.raised
    /\ call.picks = <<>>
    /\ HasLine("wake") /\ HasLine("primary") /\ HasLine("break_1")
    /\ HasLine("rotation_1") /\ HasLine("rotation_2")

(***************************************************************************)
(* get_project_prd_status (tools/projects.py): the digest of a project's   *)
(* PRD status file; there is one when the project has a path and a         *)
(* prd_status_path.                                                        *)
(***************************************************************************)
get_project_prd_status(p) ==
    IF p.path # "" /\ p.prd_status_path # Absent
    THEN [found |-> TRUE, digest |-> p.id]
    ELSE [found |-> FALSE, digest |-> Absent]

\* a line of a block that is bound to project p
BoundTo(line, p) ==
    /\ line.kind \in {"primary", "rotation_1", "rotation_2"}
    /\ line.title = p.name

\* C13: every schedule block bound to a project that has a PRD-status
\* locator carries the project's PRD digest as its detail.
C13_PrdDigestAttached ==
    (Generated /\ ~call.raised) =>
        \A i \in 1..Len(call.lines) : \A p \in Range(projects) :
            (BoundTo(call.lines[i], p) /\ get_project_prd_status(p).found)
                => call.lines[i].detail = get_project_prd_status(p).digest

\* C14: with a template that has no work blocks generate_daily_schedule
\* does not fail, renders the personal blocks and ends the work section with
\* a "no work blocks configured" marker.
C14_NoWorkBlocksMarker ==
    (Generated /\ DOMAIN StoredWork = {}) =>
        (~call.raised /\ PersonalRendered /\ HasLine("no_work_blocks"))

\* a template without work blocks: the personal blocks are rendered, no
\* work block is
C14_PersonalBlocksOnly ==
    /\ Generated
    /\ DOMAIN StoredWork = {}
    /\ ~call.raised
    /\ HasLine("wake") /\ HasLine("ready")
    /\ ~HasLine("primary") /\ ~HasLine("rotation_1")

\* the position of a block in the day: morning blocks, primary, break,
\* rotation slot 1, rotation slot 2, evening blocks
Stage(kind) ==
    CASE kind \in {"wake", "gym", "stretch", "shower", "ready"} -> 1
      [] kind = "primary" -> 2
      [] kind = "break_1" -> 3
      [] kind = "rotation_1" -> 4
      [] kind = "rotation_2" -> 5
      [] kind \in {"end_work", "dinner", "wind_down"} -> 6
      [] OTHER -> 0

IsEntry(line) == Stage(line.kind) > 0

\* C15: the entries of a generated schedule are in the order morning
\* blocks, primary block, break block, rotation slot 1 with the selector's
\* first pick, rotation slot 2 with its second pick, evening blocks.
C15_EntriesInOrder ==
    (Generated /\ ~call.raised) =>
        /\ \A i, j \in 1..Len(call.lines) :
              (i < j /\ IsEntry(call.lines[i]) /\ IsEntry(call.lines[j]))
                  => Stage(call.lines[i].kind) <= Stage(call.lines[j].kind)
        /\ \A i \in 1..Len(call.lines) :
              /\ (call.lines[i].kind = "rotation_1" /\ Len(call.picks) >= 1)
                    => call.lines[i].title = call.picks[1].name
              /\ (call.lines[i].kind = "rotation_2" /\ Len(call.picks) >= 2)
                    => call.lines[i].title = call.picks[2].name

\* a schedule with a gym line, the fixed blocks, two filled rotation slots
\* and the evening blocks
C15_Witness ==
    /\ Generated
    /\ ~call.raised
    /\ Len(call.picks) = 2
    /\ HasLine("gym") /\ HasLine("wake") /\ HasLine("primary")
    /\ HasLine("break_1") /\ HasLine("rotation_1") /\ HasLine("rotation_2")
    /\ HasLine("wind_down")

\* C16: for every stored weekly template, blocks with missing fields
\* included, and every project list generate_daily_schedule returns a
\* schedule and never raises.
C16_NeverRaises ==
    Generated => (~call.raised /\ call.lines # <<>>)

\* a schedule is returned from a stored template whose gym block has no
\* day-set and a registry with worked-on projects
C16_DegradedButRendered ==
    /\ Generated
    /\ ~call.raised
    /\ template.present
    /\ "gym" \in DOMAIN StoredPersonal
    /\ ~StoredPersonal["gym"].has_days
    /\ \E p \in Range(projects) : p.last_worked.fmt = "offset"

\* the project id the template binds to the primary block
PrimaryProjectId ==
    IF "primary" \in DOMAIN StoredWork /\ StoredWork["primary"].project # Absent
    THEN StoredWork["primary"].project
    ELSE "sigmavue"

\* C18: the project bound to the template's primary block never fills a
\* rotation slot of the same schedule.
C18_PrimaryNotInRotation ==
    (Generated /\ ~call.raised /\ HasLine("primary")) =>
        \A i \in 1..Len(call.lines) : \A n \in 1..Len(call.picks) :
            (call.lines[i].kind \in {"rotation_1", "rotation_2"}
                /\ call.lines[i].title = call.picks[n].name)
                    => call.picks[n].id # PrimaryProjectId

\* the default binding: sigmavue holds the primary block and the rotation
\* slots hold two other projects
C18_DefaultBinding ==
    /\ Generated
    /\ ~call.raised
    /\ PrimaryProjectId = "sigmavue"
    /\ HasLine("primary") /\ HasLine("rotation_1")
    /\ Len(call.picks) = 2
    /\ IndexOf(projects, "sigmavue") > 0

(***************************************************************************)
(* Properties of interleaved calls, checked under SpecInterleaved.         *)
(***************************************************************************)
\* the call's outcome is the one the assembly has on the table t alone
OutcomeOn(t) ==
    LET s == ScheduleLines(t, template, call.date, call.date)
    IN  s.raised = call.raised /\ s.lines = call.lines

\* C17: the schedule an invocation of generate_daily_schedule renders is
\* the schedule of one project state that existed at a single instant of
\* the invocation, also when project writes land during the invocation.
C17_ConsistentSnapshot ==
    (Generated /\ call.seen # {}) => \E t \in call.seen : OutcomeOn(t)

\* a write landed between the two reads of an invocation and the schedule
\* is that of the table after the write
C17_WriteDuringCall ==
    /\ Generated
    /\ ~call.raised
    /\ Cardinality(call.seen) = 2
    /\ Len(call.picks) >= 1
    /\ OutcomeOn(projects)

(***************************************************************************)
(* Properties of the stored registry, checked under SpecStore.             *)
(***************************************************************************)
\* ids of the projects marked daily=true
DailyIds == {p.id : p \in {q \in Range(projects) : q.daily}}

\* C19: after any sequence of project-store writes and template updates at
\* most one project is marked daily=true, the one that holds the fixed
\* primary block of the weekly template.
C19_AtMostOneDaily == Cardinality(DailyIds) <= 1

\* a scanned project was added next to the daily project, which is the
\* project of the primary block
C19_ScanAddsNonDaily ==
    /\ call.op = "scan_and_add_project"
    /\ call.wrote
    /\ DailyIds = {PrimaryProjectId}
    /\ Len(projects) >= 2

(***************************************************************************)
(* Properties of the scheduled-job runner, checked under SpecBoot.         *)
(***************************************************************************)
\* C20: whichever entry point started the service, once the scheduled-job
\* runner is running the morning-brief, evening-summary and weekly jobs are
\* registered with it.
C20_JobsRegistered ==
    scheduler.running => ClaimedJobs \subseteq scheduler.jobs

\* started through main.py, the runner has fired the morning brief, which
\* generated today's schedule
C20_MainFiresMorningBrief ==
    /\ scheduler.entry = "main"
    /\ scheduler.running
    /\ "morning_brief" \in scheduler.fired
    /\ Generated
    /\ ~call.raised
    /\ call.date = now

(***************************************************************************)
(* The agent graph (agent.py): node "agent" calls the model, node "tools"  *)
(* runs the tool calls of the last message, should_continue routes.        *)
(***************************************************************************)
MaxToolCalls == 2
MaxRounds == 2

\* HumanMessage and ToolMessage have no attribute tool_calls; an AIMessage
\* has the list of the tool calls the model asked for, possibly empty
HumanMessage ==
    [type |-> "human", has_tool_calls |-> FALSE, tool_calls |-> 0]

AIMessage(n) ==
    [type |-> "ai", has_tool_calls |-> TRUE, tool_calls |-> n]

ToolMessage ==
    [type |-> "tool", has_tool_calls |-> FALSE, tool_calls |-> 0]

add_messages(left, right) == left \o right

Last(seq) == seq[Len(seq)]

should_continue_AlwaysEnd(messages) == "end"

should_continue(messages) ==
    LET last_message == Last(messages)
    IN  IF last_message.has_tool_calls /\ last_message.tool_calls > 0
        THEN "tools"
        ELSE "end"

\* the tool rounds a run has made
Rounds(messages) ==
    Cardinality({i \in 1..Len(messages) :
                    messages[i].type = "ai" /\ messages[i].tool_calls > 0})

\* chat: the run starts at the entry point with the user's message
Chat ==
    /\ graph.node \in {"idle", "end", "raised"}
    /\ graph' = [node |-> "agent", messages |-> <<HumanMessage>>,
                 response |-> Absent]
    /\ UNCHANGED <<projects, template, now, call, pending, scheduler,
                   webhook, telegram, last_responses, calendar, editors>>

\* node "agent": the model answers with n tool calls; the conditional edge
\* follows.  At END chat returns the content of the last AIMessage.
CallModel(n) ==
    /\ graph.node = "agent"
    /\ n > 0 => Rounds(graph.messages) < MaxRounds
    /\ LET messages == add_messages(graph.messages, <<AIMessage(n)>>)
       IN  graph' = IF should_continue(messages) = "tools"
                    THEN [graph EXCEPT !.node = "tools",
                                       !.messages = messages]
                    ELSE [node |-> "end", messages |-> messages,
                          response |-> Len(messages)]
    /\ UNCHANGED <<projects, template, now, call, pending, scheduler,
                   webhook, telegram, last_responses, calendar, editors>>

\* the model call fails: ainvoke raises and chat returns its error text
CallModelRaises ==
    /\ graph.node = "agent"
    /\ graph' = [graph EXCEPT !.node = "raised", !.response = 0]
    /\ UNCHANGED <<projects, template, now, call, pending, scheduler,
                   webhook, telegram, last_responses, calendar, editors>>

\* node "tools": one ToolMessage per tool call, then back to "agent"
ToolNode ==
    /\ graph.node = "tools"
    /\ graph' = [graph EXCEPT
                   !.node = "agent",
                   !.messages = add_messages(@,
                       [i \in 1..Last(graph.messages).tool_calls |->
                           ToolMessage])]
    /\ UNCHANGED <<projects, template, now, call, pending, scheduler,
                   webhook, telegram, last_responses, calendar, editors>>

(***************************************************************************)
(* POST /webhooks/calendly (server.py).                                    *)
(***************************************************************************)
\* settings.calendly_webhook_secret: unset or set
WebhookSecrets == {"", "whsec"}

\* raw request bodies: a JSON object, a JSON array, bytes that are no JSON
Bodies ==
    {"{\"event\": \"invitee.created\"}",
     "{\"event\": \"invitee.canceled\"}", "[]", "<html>"}

\* hmac.new(secret, payload, sha256).hexdigest(): a digest determined by
\* both the key and the payload
HmacHexDigest(secret, payload) == <<"sha256", secret, payload>>

\* the header Calendly-Webhook-Signature: absent (default ""), a digest, or
\* a value with a character outside ASCII; header values are tuples
NoHeader == <<"">>

NonAscii == <<"\\xe9">>

Signatures ==
    {NoHeader, NonAscii}
        \cup {HmacHexDigest(s, b) : s \in {"whsec", "other"}, b \in Bodies}

\* hmac.compare_digest on two str: TypeError unless both are ASCII
compare_digest(a, b) ==
    IF b = NonAscii THEN "raises" ELSE IF a = b THEN "true" ELSE "false"

verify_calendly_signature(payload, signature, secret) ==
    IF secret = ""
    THEN "true"
    ELSE compare_digest(HmacHexDigest(secret, payload), signature)

\* json.loads(body)
JsonLoads(body) ==
    CASE body = "[]" -> "array"
      [] body = "<html>" -> "raises"
      [] OTHER -> "object"

\* notify_calendly_event: sends when the bot is up; a failed send is logged
notify_calendly_event(bot_ready, send_ok) == bot_ready /\ send_ok

\* the handler's response: status 500 stands for an exception that leaves
\* the handler
calendly_webhook(secret, signature, body, bot_ready, send_ok) ==
    LET req == [NoRequest EXCEPT !.secret = (secret # ""),
                                 !.signature = signature, !.body = body]
        v == IF secret # ""
             THEN verify_calendly_signature(body, signature, secret)
             ELSE "true"
        data == JsonLoads(body)
    IN  CASE v = "raises" -> [req EXCEPT !.status = 500]
          [] v = "false" -> [req EXCEPT !.status = 401]
          [] data = "raises" ->
                [req EXCEPT !.status = 400, !.verified = TRUE]
          [] data = "array" ->
                [req EXCEPT !.status = 500, !.verified = TRUE,
                            !.parsed = TRUE]
          [] OTHER ->
                [req EXCEPT !.status = 200, !.verified = TRUE,
                            !.parsed = TRUE,
                            !.notified =
                                notify_calendly_event(bot_ready, send_ok)]

CalendlyWebhook(secret, signature, body, bot_ready, send_ok) ==
    /\ webhook' = calendly_webhook(secret, signature, body, bot_ready,
                                   send_ok)
    /\ telegram' = IF webhook'.notified
                   THEN [telegram EXCEPT !.sent = @ \cup {"calendly_event"}]
                   ELSE telegram
    /\ UNCHANGED <<projects, template, now, call, pending, scheduler,
                   graph, last_responses, calendar, editors>>

(***************************************************************************)
(* The Telegram handlers (telegram_bot.py).                                *)
(***************************************************************************)
\* settings.telegram_chat_id and the ids updates come from
telegram_chat_id == "1001"

UserIds == {"1001", "2002"}

is_authorized_Open(user_id) == TRUE

is_authorized(user_id) == user_id = telegram_chat_id

\* unauthorized_response: the one reply an unauthorized sender gets
unauthorized_response == <<"not_your_donna">>

store_last_response(responses, user_id, response) ==
    [u \in DOMAIN responses \cup {user_id} |->
        IF u = user_id THEN response ELSE responses[u]]

get_last_response(responses, user_id) ==
    IF user_id \in DOMAIN responses THEN responses[user_id] ELSE Absent

\* what a handler did: the calls it invoked, whether it stored, its replies
Handled(handler, user_id, invoked, stored, replies) ==
    [telegram EXCEPT !.handler = handler, !.user = user_id,
                     !.invoked = invoked, !.stored = stored,
                     !.replies = replies]

\* a text message: the agent's reply is stored and sent; an empty reply is
\* not stored
handle_text_message(user_id, response) ==
    IF ~is_authorized(user_id)
    THEN [update |-> Handled("handle_text_message", user_id, {}, FALSE,
                             unauthorized_response),
          responses |-> last_responses]
    ELSE IF response # ""
    THEN [update |-> Handled("handle_text_message", user_id, {"chat"},
                             TRUE, <<response>>),
          responses |-> store_last_response(last_responses, user_id,
                                            response)]
    ELSE [update |-> Handled("handle_text_message", user_id, {"chat"},
                             FALSE, <<"nothing_comes_to_mind">>),
          responses |-> last_responses]

HandleTextMessage(user_id, response) ==
    \E h \in {handle_text_message(user_id, response)} :
        /\ telegram' = h.update
        /\ last_responses' = h.responses
        /\ UNCHANGED <<projects, template, now, call, pending, scheduler,
                       graph, webhook, calendar, editors>>

\* /schedule: today's schedule is generated, stored and sent; when the
\* tool raises, only the apology is sent
schedule_command(user_id, out) ==
    IF ~is_authorized(user_id)
    THEN [update |-> Handled("schedule_command", user_id, {}, FALSE,
                             unauthorized_response),
          responses |-> last_responses]
    ELSE IF out.raised
    THEN [update |-> Handled("schedule_command", user_id,
                             {"get_schedule_for_date"}, FALSE,
                             <<"trouble_generating">>),
          responses |-> last_responses]
    ELSE [update |-> Handled("schedule_command", user_id,
                             {"get_schedule_for_date"}, TRUE,
                             <<"schedule">>),
          responses |-> store_last_response(last_responses, user_id,
                                            "schedule")]

ScheduleCommand(user_id) ==
    \E out \in {generate_daily_schedule(projects, template, now, NoDate)} :
    \E h \in {schedule_command(user_id, out)} :
        /\ telegram' = h.update
        /\ last_responses' = h.responses
        /\ IF is_authorized(user_id)
           THEN /\ projects' = out.projects
                /\ template' = out.template
           ELSE UNCHANGED <<projects, template>>
        /\ UNCHANGED <<now, call, pending, scheduler, graph, webhook,
                       calendar, editors>>

(***************************************************************************)
(* Specification SpecService: the agent graph and the Telegram handlers of *)
(* the running service.  Specification SpecWebhook: the webhook endpoint.  *)
(***************************************************************************)
AgentReplies == {"", "reply"}

NextService ==
    \/ Chat
    \/ \E n \in 0..MaxToolCalls : CallModel(n)
    \/ CallModelRaises
    \/ ToolNode
    \/ \E u \in UserIds, r \in AgentReplies : HandleTextMessage(u, r)
    \/ \E u \in UserIds : ScheduleCommand(u)

SpecService == InitInterleaved /\ [][NextService]_vars

NextWebhook ==
    \E s \in WebhookSecrets, g \in Signatures, b \in Bodies,
       r \in BOOLEAN, k \in BOOLEAN : CalendlyWebhook(s, g, b, r, k)

SpecWebhook == InitInterleaved /\ [][NextWebhook]_vars

(***************************************************************************)
(* Claims C21, C23, C24: the agent loop, the webhook, the Telegram guard.  *)
(***************************************************************************)
\* the message is an AI message that asks for at least one tool call
CarriesToolCalls(m) == m.type = "ai" /\ m.tool_calls > 0

\* C21: the graph runs agent -> tools -> agent.  A completed agent step
\* goes to the tools step exactly when the last message carries tool
\* calls, the tools step always goes back to the agent step, and a run
\* reaches its end only from the agent step, with a last message that is
\* an AI reply carrying no tool call.
C21_ToolDispatchLoop ==
    [][/\ (graph.node = "agent" /\ graph'.node \in {"tools", "end"})
            => (graph'.node = "tools"
                    <=> CarriesToolCalls(Last(graph'.messages)))
       /\ (graph.node = "tools" /\ graph' # graph)
            => graph'.node = "agent"
       /\ (graph'.node = "end" /\ graph.node # "end")
            => /\ graph.node = "agent"
               /\ Last(graph'.messages).type = "ai"
               /\ ~CarriesToolCalls(Last(graph'.messages))]_vars

\* a run has ended after at least one round through the tools step
C21_EndedAfterToolRound ==
    /\ graph.node = "end"
    /\ \E i \in 1..Len(graph.messages) : graph.messages[i].type = "tool"
    /\ graph.response = Len(graph.messages)

\* C23 as stated: with a secret configured, a request whose signature
\* header is not the HMAC-SHA256 of the raw body under the secret gets
\* status 401, its body is not parsed and no notification is sent.
C23_BadSignatureIs401 ==
    (webhook.secret
        /\ webhook.signature # HmacHexDigest("whsec", webhook.body))
    => (webhook.status = 401 /\ ~webhook.parsed /\ ~webhook.notified)

\* a request signed under another secret has been rejected with 401
C23_WrongKeyRejected ==
    /\ webhook.secret
    /\ webhook.body # Absent
    /\ webhook.signature = HmacHexDigest("other", webhook.body)
    /\ webhook.status = 401
    /\ ~webhook.parsed
    /\ ~webhook.notified

\* C24: a handler run for a sender other than telegram_chat_id invokes no
\* tool and no agent call, stores no last response and sends only the
\* unauthorized reply; last_responses has no entry for any other user id.
C24_OnlyTheAuthorizedUser ==
    /\ (telegram.handler # "none" /\ telegram.user # telegram_chat_id)
        => /\ telegram.invoked = {}
           /\ ~telegram.stored
           /\ telegram.replies = unauthorized_response
    /\ DOMAIN last_responses \subseteq {telegram_chat_id}

\* another user wrote to the bot after the authorized user got a reply
C24_StrangerAfterOwner ==
    /\ telegram.handler = "handle_text_message"
    /\ telegram.user = "2002"
    /\ get_last_response(last_responses, telegram_chat_id) = "reply"
    /\ get_last_response(last_responses, "2002") = Absent

(***************************************************************************)
(* The template update tools as their read of the settings row and their   *)
(* later write of the whole template (schedule.py:272 and :300,            *)
(* calendar_sync.py:422 and :456).  Tool calls run in worker threads, so   *)
(* another call's write may land between the two.                          *)
(***************************************************************************)
MaxEditors == 2

\* block_name, start_time, end_time of the calls made
EditArgs ==
    {<<"gym", "6:00 AM", Absent>>,
     <<"rotation_1", "4:00 PM", Absent>>,
     <<"rotation", Absent, "6:00 PM">>}

EditTools == {"update_schedule", "update_schedule_template"}

\* the tool applied to the template it has read
ApplyUpdate(tool, row, args) ==
    IF tool = "update_schedule"
    THEN update_schedule(projects, row, args[1], args[2], args[3], Absent)
    ELSE update_schedule_template(projects, row, args[1], args[2], args[3],
                                  <<>>, TRUE)

\* a whole call, nothing in between
UpdateTemplate(tool, args) ==
    \E out \in {ApplyUpdate(tool, template, args)} :
        FinishCall(tool, 0, args[1], out)

\* the call reads the template
UpdateReadTemplate(tool, args) ==
    /\ Cardinality(editors) < MaxEditors
    /\ editors' = editors \cup {[tool |-> tool, args |-> args,
                                 row |-> template]}
    /\ UNCHANGED <<projects, template, now, call, pending, scheduler,
                   graph, webhook, telegram, last_responses, calendar>>

\* the call changes its copy and upserts it
UpdateWriteTemplate(e) ==
    /\ e \in editors
    /\ editors' = editors \ {e}
    /\ \E out \in {ApplyUpdate(e.tool, e.row, e.args)} :
          /\ call' = [NoCall EXCEPT !.op = e.tool, !.block = e.args[1],
                                    !.wrote = out.wrote]
          /\ template' = IF out.wrote THEN out.template ELSE template
    /\ UNCHANGED <<projects, now, pending, scheduler, graph, webhook,
                   telegram, last_responses, calendar>>

NextTemplate ==
    \/ \E t \in EditTools, a \in EditArgs : UpdateTemplate(t, a)
    \/ \E t \in EditTools, a \in EditArgs :
          a[1] \in {"gym", "rotation_1"} /\ UpdateReadTemplate(t, a)
    \/ \E e \in editors : UpdateWriteTemplate(e)

InitTemplate ==
    /\ projects = [i \in 1..2 |-> RegistryRow(i)]
    /\ template \in {NoRow, Row(get_default_template)}
    /\ now = 1
    /\ call = NoCall
    /\ pending = NoPending
    /\ scheduler = NoScheduler
    /\ ServiceInit

SpecTemplate == InitTemplate /\ [][NextTemplate]_vars

(***************************************************************************)
(* Claims C22 and C29: what a template update changes.                     *)
(***************************************************************************)
\* the blocks of the template the row gives, as section and name
BlockKeys(row) ==
    LET t == load_weekly_template(row)
    IN  ({"personal_blocks"} \X DOMAIN t.personal_blocks)
            \cup ({"work_blocks"} \X DOMAIN t.work_blocks)
            \cup ({"evening"} \X DOMAIN t.evening)

BlockAt(row, key) == load_weekly_template(row)[key[1]][key[2]]

\* every block not named block_name has the same value in both rows
OthersKept(before, after, block_name) ==
    /\ BlockKeys(after) = BlockKeys(before)
    /\ \A key \in BlockKeys(before) :
          key[2] # block_name => BlockAt(after, key) = BlockAt(before, key)

\* C22 as stated: a whole update call on a stored template changes only
\* the block whose name equals block_name; every other personal, work and
\* evening block keeps its value.
C22_OnlyNamedBlockChanges ==
    [][(call'.op \in EditTools /\ editors' = editors /\ template.present)
            => OthersKept(template, template', call'.block)]_vars

\* update_schedule has changed the gym block of a stored template and
\* nothing else
C22_GymMoved ==
    /\ call.op = "update_schedule"
    /\ call.block = "gym"
    /\ call.wrote
    /\ BlockAt(template, <<"personal_blocks", "gym">>).time = "6:00 AM"
    /\ OthersKept(Row(get_default_template), template, "gym")

\* C29 as stated: the write of an update call that read a stored template
\* earlier and names one block of it loses no other update: every block
\* it does not name keeps the value the store held just before the write.
C29_NoUpdateLost ==
    [][(editors' # editors /\ editors' \subseteq editors
            /\ template.present
            /\ \A e \in editors \ editors' : e.row.present
            /\ \E key \in BlockKeys(template) : key[2] = call'.block)
            => OthersKept(template, template', call'.block)]_vars

(***************************************************************************)
(* Google Calendar sync (tools/calendar_sync.py).  calendar.donna is the   *)
(* list of events whose summary starts with "[Donna]", by the rest of the  *)
(* summary, in the order events().list returns them; calendar.other is     *)
(* the set of all other events.                                            *)
(***************************************************************************)
MaxEvents == 5

\* events of the user: one plain, one that only mentions "[Donna]"
OtherEvents == {"Dentist", "Re: [Donna] Gym"}

\* what the search q="[Donna]" returns: the events that mention it
ListEvents(cal) ==
    [donna |-> cal.donna,
     other |-> {e \in cal.other : e = "Re: [Donna] Gym"}]

\* no call of the clearing step fails
NoFailure == -1

\* delete_donna_events: the listed events whose summary starts with
\* "[Donna]" are deleted one by one.  fail_at = 0: the list call raises;
\* fail_at = k: the delete call after k deletions raises.  The exception
\* is logged and the events not yet deleted stay.
delete_donna_events(cal, fail_at) ==
    LET listed == ListEvents(cal).donna
        deleted == IF fail_at = NoFailure \/ fail_at >= Len(listed)
                   THEN Len(listed)
                   ELSE fail_at
    IN  [cal EXCEPT !.donna = SubSeq(listed, deleted + 1, Len(listed)),
                    !.delete_failed = (deleted < Len(listed)
                                          \/ fail_at = 0)]

\* the summaries sync_schedule_to_calendar creates, in the order of the
\* create calls
MorningSummaries(tmpl) ==
    LET personal == tmpl.personal_blocks
    IN  (IF "gym" \in DOMAIN personal THEN <<"Gym">> ELSE <<>>)
        \o (IF "stretch" \in DOMAIN personal
            THEN <<"Stretch & Recovery">> ELSE <<>>)
        \o (IF "ready" \in DOMAIN personal
            THEN <<"Ready for Work">> ELSE <<>>)

DescriptionOr(block, default) ==
    IF block.description = Absent THEN default ELSE block.description

WorkSummaries(tmpl) ==
    LET work == tmpl.work_blocks
    IN  (IF "primary" \in DOMAIN work
         THEN <<DescriptionOr(work["primary"], "Sigmavue Deep Work")>>
         ELSE <<>>)
        \o (IF "break_1" \in DOMAIN work THEN <<"Break">> ELSE <<>>)
        \o (IF "rotation_1" \in DOMAIN work
            THEN <<DescriptionOr(work["rotation_1"], "Project Rotation 1")>>
            ELSE <<>>)
        \o (IF "rotation_2" \in DOMAIN work
            THEN <<DescriptionOr(work["rotation_2"], "Project Rotation 2")>>
            ELSE <<>>)

\* create_recurring_event for each summary; the calls whose position is in
\* failed raise inside it and create nothing
RECURSIVE CreateEvents(_, _, _, _)
CreateEvents(events, summaries, i, failed) ==
    IF i > Len(summaries) THEN events
    ELSE CreateEvents(IF i \in failed THEN events
                      ELSE Append(events, summaries[i]),
                      summaries, i + 1, failed)

\* sync_schedule_to_calendar with clear_existing=True
sync_schedule_to_calendar(cal, row, include_morning, include_work, fail_at, failed) ==
    LET tmpl == get_schedule_template(row)
        cleared == delete_donna_events(cal, fail_at)
        summaries ==
            (IF include_morning THEN MorningSummaries(tmpl) ELSE <<>>)
                \o (IF include_work THEN WorkSummaries(tmpl) ELSE <<>>)
        created == CreateEvents(cleared.donna, summaries, 1, failed)
    IN  [cleared EXCEPT
           !.donna = created,
           !.op = <<"sync_schedule_to_calendar", include_morning,
                    include_work>>,
           !.before = cal.donna,
           !.insert_failed =
               (failed \cap (1..Len(summaries)) # {}),
           !.again = (cal.op = <<"sync_schedule_to_calendar",
                                 include_morning, include_work>>
                        /\ ~cal.insert_failed /\ ~cal.delete_failed)]

SyncScheduleToCalendar(include_morning, include_work, fail_at, failed) ==
    /\ Len(calendar.donna) <= MaxEvents
    /\ calendar' = sync_schedule_to_calendar(calendar, template,
                       include_morning, include_work, fail_at, failed)
    /\ UNCHANGED <<projects, template, now, call, pending, scheduler,
                   graph, webhook, telegram, last_responses, editors>>

\* clear_donna_calendar_events
ClearDonnaCalendarEvents(fail_at) ==
    /\ calendar' = [delete_donna_events(calendar, fail_at) EXCEPT
                      !.op = <<"clear_donna_calendar_events">>,
                      !.before = calendar.donna,
                      !.insert_failed = FALSE, !.again = FALSE]
    /\ UNCHANGED <<projects, template, now, call, pending, scheduler,
                   graph, webhook, telegram, last_responses, editors>>

\* the failures tried: none, the list call, the second delete call
ClearingFailures == {NoFailure, 0, 1}

InsertFailures == {{}, {2}}

InitCalendar ==
    /\ projects = [i \in 1..2 |-> RegistryRow(i)]
    /\ template \in {NoRow, Row(get_default_template),
                     Row(WithoutGym(get_default_template))}
    /\ now = 1
    /\ call = NoCall
    /\ pending = NoPending
    /\ scheduler = NoScheduler
    /\ graph = NoRun
    /\ webhook = NoRequest
    /\ telegram = NoUpdate
    /\ last_responses = NoResponses
    /\ calendar \in {[NoEvents EXCEPT !.other = o] : o \in SUBSET OtherEvents}
    /\ editors = NoEditors

NextCalendar ==
    \/ \E m \in BOOLEAN, w \in BOOLEAN, f \in ClearingFailures,
          x \in InsertFailures : SyncScheduleToCalendar(m, w, f, x)
    \/ \E f \in ClearingFailures : ClearDonnaCalendarEvents(f)

SpecCalendar == InitCalendar /\ [][NextCalendar]_vars

(***************************************************************************)
(* Claim C25: syncing twice.                                               *)
(***************************************************************************)
Count(seq, x) == Cardinality({i \in 1..Len(seq) : seq[i] = x})

\* the same events, each as often
SameEvents(a, b) ==
    \A x \in Range(a) \cup Range(b) : Count(a, x) = Count(b, x)

\* C25 as stated: a sync run right after a sync with the same arguments
\* leaves the same [Donna] events as the first did, no event twice, also
\* when a list or delete call of its clearing step fails; no insert call
\* fails in either run.
C25_SecondSyncSameEvents ==
    (calendar.again /\ ~calendar.insert_failed)
        => SameEvents(calendar.donna, calendar.before)

\* a second sync whose clearing step did not fail left the events of the
\* first, and the user's own events are all still there
C25_CleanResync ==
    /\ calendar.again
    /\ ~calendar.insert_failed
    /\ ~calendar.delete_failed
    /\ calendar.donna # <<>>
    /\ SameEvents(calendar.donna, calendar.before)
    /\ calendar.other = OtherEvents

(***************************************************************************)
(* Claim C26: the Calendly sync job.                                       *)
(***************************************************************************)
\* C26 as stated: the sync job sends the conflict message only when a
\* Calendly event of the day overlaps a project block.
C26_MessageOnlyOnConflict ==
    scheduler.sync.sent => scheduler.sync.events = "overlap"

\* a sync without a Calendly key has run and sent nothing
C26_UnconfiguredSilent ==
    /\ scheduler.sync.ran
    /\ ~scheduler.sync.configured
    /\ ~scheduler.sync.sent
    /\ "schedule_conflict" \notin telegram.sent

NeverWorkedCandidates ==
    {p \in Range(projects) :
        /\ ~p.daily /\ p.path # "" /\ p.id # "sigmavue"
        /\ p.last_worked = NeverWorked}

WellFormedTemplate == template \in {NoRow, Row(get_default_template)}

\* C28 as stated, for the next schedule: a schedule generated while at
\* most two eligible projects have never been worked on selects each of
\* them into a rotation slot.
C28_NeverWorkedSelectedNext ==
    (/\ call.op = "generate_daily_schedule"
     /\ WellFormedTemplate
     /\ NeverWorkedCandidates # {}
     /\ Cardinality(NeverWorkedCandidates) <= 2)
        => \A p \in NeverWorkedCandidates : IndexOf(call.picks, p.id) > 0

\* the first schedule, nothing worked on yet, selected both candidates
C28_FirstDaySelected ==
    /\ call.op = "generate_daily_schedule"
    /\ ~call.raised
    /\ WellFormedTemplate
    /\ Cardinality(NeverWorkedCandidates) = 2
    /\ \A p \in NeverWorkedCandidates : IndexOf(call.picks, p.id) > 0

(***************************************************************************)
(* Claim C30: scan_and_add_project and the rows already stored.            *)
(***************************************************************************)
\* C30 as stated: a scan_and_add_project call leaves every row that was
\* stored before it in the table, all fields unchanged.
C30_RegisteredRowsKept ==
    [][call'.op = "scan_and_add_project"
            => \A i \in 1..Len(projects) :
                  \E j \in 1..Len(projects') : projects'[j] = projects[i]]_vars

\* a call for a folder that is already registered wrote nothing
C30_RegisteredPathNoWrite ==
    /\ call.op = "scan_and_add_project"
    /\ ~call.wrote
    /\ \E i \in 1..Len(projects) : projects[i].path = "/q"

====
